---- MODULE Spec2Model ----
(***************************************************************************)
(* Model of sync.py (MSSQL -> GitLab schema sync).                         *)
(*                                                                         *)
(* Strings are sequences of pieces.  A file path, a database name, a       *)
(* schema or object name and an object type are sequences of single        *)
(* characters, so that str.startswith and the f-string concatenation of    *)
(* sync.py are computed character by character.  A definition text is a    *)
(* sequence of chunks (a word such as "CREATE", or one separator such as   *)
(* " "); the chunks form a prefix code, so two texts are equal exactly     *)
(* when their chunk sequences are equal.                                   *)
(***************************************************************************)
EXTENDS Naturals, Sequences, FiniteSets

VARIABLES
    pc,                \* position of main() / of the function under check
    DATABASE_MODE,     \* configuration read from the environment
    DATABASES,
    EXCLUDE_DATABASES,
    server_dbs,        \* rows of sys.databases (online, non-system, by name)
    catalog,           \* live catalog of every database of the server
    repo,              \* file tree of the GitLab branch: path -> content
    databases,         \* main(): resolved list
    existing_files,    \* main(): set returned by get_existing_files
    all_actions,       \* main(): merged action list
    db_stats,          \* main(): database name -> counts
    idx,               \* main(): position of the for loop in databases
    database_name,     \* main(): loop variable
    db_conn,           \* main(): connection object bound to db_conn (0: unbound)
    open_conns,        \* database connections opened and not closed
    proc_rows,         \* main(): locals of the loop body
    table_rows,
    actions,
    log,               \* per-database "Completed"/"Failed" log lines
    commit_calls,      \* number of calls of commit_to_gitlab
    requests,          \* commit requests submitted to project.commits.create
    actions2,          \* result of a second call of prepare_commit_actions
    object_type,       \* one row under normalization
    definition,
    normalized,        \* definition after fetch_database_objects' rewrite
    renormalized       \* the rewrite applied to the rewritten text

vars == <<pc, DATABASE_MODE, DATABASES, EXCLUDE_DATABASES, server_dbs,
          catalog, repo, databases, existing_files, all_actions, db_stats,
          idx, database_name, db_conn, open_conns, proc_rows, table_rows,
          actions, log, commit_calls, requests, actions2, object_type,
          definition, normalized, renormalized>>

runVars == <<DATABASE_MODE, DATABASES, EXCLUDE_DATABASES, server_dbs,
             catalog, repo, databases, all_actions, db_stats, idx, db_conn,
             open_conns, log, commit_calls, requests>>

diffVars == <<database_name, proc_rows, table_rows, existing_files, actions,
              actions2>>

normVars == <<object_type, definition, normalized, renormalized>>

(***************************************************************************)
(* Bounds                                                                  *)
(***************************************************************************)
MaxRows == 2         \* most object rows one catalog query returns
MaxDatabases == 2    \* longest DATABASES list
MaxClauses == 2      \* most clauses of one definition text

(***************************************************************************)
(* Python values                                                           *)
(***************************************************************************)
None == <<"<None>">>

Range(s) == {s[i] : i \in 1..Len(s)}

\* str.startswith
StartsWith(s, prefix) ==
    /\ Len(prefix) <= Len(s)
    /\ SubSeq(s, 1, Len(prefix)) = prefix

\* str.endswith
EndsWith(s, suffix) ==
    /\ Len(suffix) <= Len(s)
    /\ SubSeq(s, Len(s) - Len(suffix) + 1, Len(s)) = suffix

RECURSIVE LStrip(_)
LStrip(s) == IF s # <<>> /\ Head(s) = " " THEN LStrip(Tail(s)) ELSE s

RECURSIVE RStrip(_)
RStrip(s) ==
    IF s # <<>> /\ s[Len(s)] = " " THEN RStrip(SubSeq(s, 1, Len(s) - 1)) ELSE s

\* str.strip
Strip(s) == LStrip(RStrip(s))

\* x or ""
OrEmpty(x) == IF x = None \/ x = <<>> THEN <<>> ELSE x

\* every ordering of a finite set as a list: the orders in which iterating a
\* Python set can yield its elements
Orderings(S) ==
    {s \in [1..Cardinality(S) -> S] : \A e \in S : \E i \in DOMAIN s : s[i] = e}

\* the sub-list of rows at the positions of keep, in list order
RECURSIVE SubList(_, _, _)
SubList(rows, keep, i) ==
    IF i > Len(rows) THEN <<>>
    ELSE (IF i \in keep THEN <<rows[i]>> ELSE <<>>) \o SubList(rows, keep, i + 1)

(***************************************************************************)
(* TYPE_FOLDERS and the computed paths                                     *)
(***************************************************************************)
FolderViews == <<"v", "i", "e", "w", "s">>
FolderProcedures == <<"p", "r", "o", "c", "e", "d", "u", "r", "e", "s">>
FolderOthers == <<"o", "t", "h", "e", "r", "s">>
FolderTables == <<"t", "a", "b", "l", "e", "s">>
DotSql == <<".", "s", "q", "l">>

\* TYPE_FOLDERS.get(key, 'procedures')
TYPE_FOLDERS(key) ==
    CASE key = <<"V">> -> FolderViews
      [] key = <<"P">> -> FolderProcedures
      [] key \in {<<"F", "N">>, <<"I", "F">>, <<"T", "F">>, <<"T", "R">>} -> FolderOthers
      [] OTHER -> FolderProcedures

\* f"{database_name}/{type_folder}/{schema_name}.{object_name}.sql"
ObjectPath(db, row) ==
    db \o <<"/">> \o TYPE_FOLDERS(Strip(row.object_type)) \o <<"/">>
       \o row.schema_name \o <<".">> \o row.object_name \o DotSql

\* f"{database_name}/tables/{schema_name}.{table_name}.sql"
TablePath(db, row) ==
    db \o <<"/">> \o FolderTables \o <<"/">>
       \o row.schema_name \o <<".">> \o row.table_name \o DotSql

(***************************************************************************)
(* prepare_commit_actions                                                  *)
(***************************************************************************)
\* the dict appended for one row of proc_rows
ObjectAction(db, row, existing) ==
    [action |-> IF ObjectPath(db, row) \in existing THEN "update" ELSE "create",
     file_path |-> ObjectPath(db, row),
     content |-> OrEmpty(row.definition)]

\* the dict appended for one row of table_rows, always as a create
TableActionCreateOnly(db, row, existing) ==
    [action |-> "create",
     file_path |-> TablePath(db, row),
     content |-> OrEmpty(row.ddl)]

\* the dict appended for one row of table_rows
TableAction(db, row, existing) ==
    [action |-> IF TablePath(db, row) \in existing THEN "update" ELSE "create",
     file_path |-> TablePath(db, row),
     content |-> OrEmpty(row.ddl)]

\* current_files after both loops
CurrentFiles(db, procs, tables) ==
    {ObjectPath(db, procs[i]) : i \in 1..Len(procs)}
        \cup {TablePath(db, tables[i]) : i \in 1..Len(tables)}

\* db_existing_files with the prefix test on the name alone, without the "/"
DbExistingFilesNoSlash(db, existing) ==
    {f \in existing : StartsWith(f, db)}

\* db_existing_files
DbExistingFiles(db, existing) ==
    {f \in existing : StartsWith(f, db \o <<"/">>)}

\* deleted_files
DeletedFiles(db, procs, tables, existing) ==
    DbExistingFiles(db, existing) \ CurrentFiles(db, procs, tables)

\* the returned tuple; order is the order in which the loop over the set
\* deleted_files yields its elements
prepare_commit_actions(db, procs, tables, existing, order) ==
    [actions |-> [i \in 1..Len(procs) |-> ObjectAction(db, procs[i], existing)]
                    \o [i \in 1..Len(tables) |-> TableAction(db, tables[i], existing)]
                    \o [i \in 1..Len(order) |-> [action |-> "delete", file_path |-> order[i]]],
     total_objects |-> Len(procs) + Len(tables),
     deleted_count |-> Cardinality(DeletedFiles(db, procs, tables, existing))]

(***************************************************************************)
(* fetch_database_objects: the CREATE -> CREATE OR ALTER rewrite           *)
(***************************************************************************)
\* chunks made of word characters (\w); every other chunk is a separator
WordChunks == {"CREATE", "create", "OR", "ALTER", "PROC", "proc", "EDURE",
               "FUNCTION", "VIEW", "TRIGGER", "TABLE", "x"}

\* chunks matched by \s
SpaceChunks == {" ", "\n"}

\* re.IGNORECASE: the chunk in upper case
Upper(c) ==
    CASE c = "create" -> "CREATE"
      [] c = "proc" -> "PROC"
      [] OTHER -> c

UpperSeq(s) == [i \in 1..Len(s) |-> Upper(s[i])]

\* \b between chunk i-1 and chunk i of text (i in 1..Len(text)+1)
WordBoundary(text, i) ==
    (i > 1 /\ text[i - 1] \in WordChunks) # (i <= Len(text) /\ text[i] \in WordChunks)

\* first position after i that holds no \s chunk
RECURSIVE SkipSpace(_, _)
SkipSpace(text, i) ==
    IF i <= Len(text) /\ text[i] \in SpaceChunks THEN SkipSpace(text, i + 1) ELSE i

\* the position after a match of \bCREATE\s+<keyword>\b that starts at chunk
\* i, or 0 when the pattern does not match there
MatchEnd(text, i, keyword) ==
    LET k == SkipSpace(text, i + 1)
        e == k + Len(keyword)
    IN IF /\ WordBoundary(text, i)
          /\ Upper(text[i]) = "CREATE"
          /\ k > i + 1
          /\ e <= Len(text) + 1
          /\ UpperSeq(SubSeq(text, k, e - 1)) = keyword
          /\ WordBoundary(text, e)
       THEN e ELSE 0

\* re.sub(r'\bCREATE\s+<keyword>\b', replacement, text, flags=re.IGNORECASE, count=1)
ReSubFirst(text, keyword, replacement) ==
    LET hits == {i \in 1..Len(text) : MatchEnd(text, i, keyword) # 0}
    IN IF hits = {} THEN text
       ELSE LET i == CHOOSE h \in hits : \A g \in hits : h <= g
            IN SubSeq(text, 1, i - 1) \o replacement
                  \o SubSeq(text, MatchEnd(text, i, keyword), Len(text))

KwProcedure == <<"PROC", "EDURE">>
KwProc == <<"PROC">>
KwFunction == <<"FUNCTION">>
KwView == <<"VIEW">>
KwTrigger == <<"TRIGGER">>

\* 'CREATE OR ALTER <keyword>'
CreateOrAlter(keyword) == <<"CREATE", " ", "OR", " ", "ALTER", " ">> \o keyword

\* the body of the loop over rows: the definition appended to modified_rows
Normalize(otype, text) ==
    IF text = None \/ text = <<>> THEN text
    ELSE LET obj_type == Strip(otype)
         IN CASE obj_type = <<"P">> ->
                    ReSubFirst(ReSubFirst(text, KwProcedure, CreateOrAlter(KwProcedure)),
                               KwProc, CreateOrAlter(KwProc))
              [] obj_type \in {<<"F", "N">>, <<"I", "F">>, <<"T", "F">>} ->
                    ReSubFirst(text, KwFunction, CreateOrAlter(KwFunction))
              [] obj_type = <<"V">> ->
                    ReSubFirst(text, KwView, CreateOrAlter(KwView))
              [] obj_type = <<"T", "R">> ->
                    ReSubFirst(text, KwTrigger, CreateOrAlter(KwTrigger))
              [] OTHER -> text

\* modified_rows
fetch_database_objects(rows) ==
    [i \in 1..Len(rows) |->
        [rows[i] EXCEPT !.definition = Normalize(rows[i].object_type, rows[i].definition)]]

(***************************************************************************)
(* Inputs: database names, catalog rows, tracked paths                     *)
(***************************************************************************)
DbA == <<"a">>
DbAB == <<"a", "b">>
Namespaces == {DbA, DbAB}

DefProc == <<"CREATE", " ", "PROC">>
DefProcedure == <<"create", "\n", "PROC", "EDURE">>

\* rows of QUERY in its ORDER BY s.name, o.name; sys.objects.type is char(2).
\* Rows 1 and 3 are distinct objects whose schema and name render alike.
ObjectUniverse ==
    << [schema_name |-> <<"s">>, object_name |-> <<"t", ".", "u">>,
        object_type |-> <<"P", " ">>, definition |-> DefProc],
       [schema_name |-> <<"s">>, object_name |-> <<"w">>,
        object_type |-> <<"T", "R">>, definition |-> None],
       [schema_name |-> <<"s", ".", "t">>, object_name |-> <<"u">>,
        object_type |-> <<"P", " ">>, definition |-> DefProcedure] >>

\* rows of ddl_query in its ORDER BY s.name, t.name
TableUniverse ==
    << [schema_name |-> <<"s">>, table_name |-> <<"u">>,
        ddl |-> <<"CREATE", " ", "TABLE">>] >>

\* the results a catalog query can return: sub-lists in query order
RowLists(universe, max) ==
    {SubList(universe, keep, 1) :
        keep \in {k \in SUBSET (1..Len(universe)) : Cardinality(k) <= max}}

\* tracked .sql paths a repository can hold
PathUniverse ==
    { DbA \o <<"/">> \o FolderProcedures \o <<"/", "s", ".", "t", ".", "u">> \o DotSql,
      DbA \o <<"/">> \o FolderProcedures \o <<"/", "s", ".", "o">> \o DotSql,
      DbAB \o <<"/">> \o FolderTables \o <<"/", "s", ".", "u">> \o DotSql }

(***************************************************************************)
(* SpecDiff: prepare_commit_actions as a function of its arguments, called *)
(* twice on the same arguments                                             *)
(***************************************************************************)
RunIdle ==
    /\ DATABASE_MODE = "specific" /\ DATABASES = <<>> /\ EXCLUDE_DATABASES = <<>>
    /\ server_dbs = <<>> /\ catalog = <<>> /\ repo = <<>> /\ databases = <<>>
    /\ all_actions = <<>> /\ db_stats = <<>> /\ idx = 0 /\ db_conn = 0
    /\ open_conns = {} /\ log = <<>> /\ commit_calls = 0 /\ requests = <<>>

NormIdle ==
    /\ object_type = <<>> /\ definition = None
    /\ normalized = None /\ renormalized = None

DiffPathUniverse ==
    PathUniverse
      \cup {DbA \o <<"/">> \o FolderTables \o <<"/", "s", ".", "u">> \o DotSql}

InitDiff ==
    /\ pc = "DiffReady"
    /\ database_name \in Namespaces
    /\ proc_rows \in RowLists(ObjectUniverse, MaxRows)
    /\ table_rows \in RowLists(TableUniverse, MaxRows)
    /\ existing_files \in SUBSET DiffPathUniverse
    /\ actions = <<>> /\ actions2 = <<>>
    /\ RunIdle /\ NormIdle

DiffFirst ==
    /\ pc = "DiffReady"
    /\ \E order \in Orderings(DeletedFiles(database_name, proc_rows, table_rows, existing_files)) :
          actions' = prepare_commit_actions(database_name, proc_rows, table_rows,
                                            existing_files, order).actions
    /\ pc' = "DiffOnce"
    /\ UNCHANGED <<database_name, proc_rows, table_rows, existing_files, actions2>>
    /\ UNCHANGED runVars /\ UNCHANGED normVars

DiffSecond ==
    /\ pc = "DiffOnce"
    /\ \E order \in Orderings(DeletedFiles(database_name, proc_rows, table_rows, existing_files)) :
          actions2' = prepare_commit_actions(database_name, proc_rows, table_rows,
                                             existing_files, order).actions
    /\ pc' = "DiffTwice"
    /\ UNCHANGED <<database_name, proc_rows, table_rows, existing_files, actions>>
    /\ UNCHANGED runVars /\ UNCHANGED normVars

NextDiff == DiffFirst \/ DiffSecond

SpecDiff == InitDiff /\ [][NextDiff]_vars

(***************************************************************************)
(* The repository on the hosting service                                   *)
(***************************************************************************)
OldContent == <<"x">>
ReadmePath == <<"a", "/", "r", ".", "m", "d">>

\* the part of a path before its first "/"
RECURSIVE TopFolder(_)
TopFolder(path) ==
    IF path = <<>> \/ Head(path) = "/" THEN <<>>
    ELSE <<Head(path)>> \o TopFolder(Tail(path))

\* project.repository_tree(ref=branch, recursive=True, all=True)
RepositoryTree(tree) ==
    {[type |-> "blob", path |-> p] : p \in DOMAIN tree}
        \cup {[type |-> "tree", path |-> TopFolder(p)] : p \in DOMAIN tree}

\* get_existing_files when the tree is listed
get_existing_files(tree) ==
    {item.path : item \in {it \in RepositoryTree(tree) :
                              it.type = "blob" /\ EndsWith(it.path, DotSql)}}

\* one action of a commit applied to the tree
ApplyAction(tree, act) ==
    IF act.action = "delete"
    THEN [p \in DOMAIN tree \ {act.file_path} |-> tree[p]]
    ELSE [p \in DOMAIN tree \cup {act.file_path} |->
             IF p = act.file_path THEN act.content ELSE tree[p]]

\* the tree after the actions of one commit, applied in list order
RECURSIVE ApplyActions(_, _)
ApplyActions(tree, acts) ==
    IF acts = <<>> THEN tree
    ELSE ApplyActions(ApplyAction(tree, Head(acts)), Tail(acts))

\* the hosting service takes a commit only if each action fits the tree the
\* actions before it leave: create needs a new path, update and delete an
\* existing one
RECURSIVE CommitAccepted(_, _)
CommitAccepted(tree, acts) ==
    IF acts = <<>> THEN TRUE
    ELSE /\ (Head(acts).action = "create") = (Head(acts).file_path \notin DOMAIN tree)
         /\ CommitAccepted(ApplyAction(tree, Head(acts)), Tail(acts))

(***************************************************************************)
(* Spec: one run of main()                                                 *)
(***************************************************************************)
DefaultDatabases == << <<"Y", "O", "U", "R", "_", "D", "B">> >>

\* the lists os.getenv(...).split(',') can yield
NameLists(max) ==
    UNION {[1..n -> Namespaces] : n \in 1..max}

ExcludeLists == { << <<>> >>, <<DbA>>, <<DbA, DbAB>> }

ServerLists == RowLists(<<DbA, DbAB>>, 2)

Modes == {"specific", "all", "all_except", "everything"}

Init ==
    /\ pc = "Idle"
    /\ DATABASE_MODE \in Modes
    /\ DATABASES \in (IF DATABASE_MODE = "specific" THEN NameLists(MaxDatabases)
                      ELSE {DefaultDatabases})
    /\ EXCLUDE_DATABASES \in (IF DATABASE_MODE = "all_except" THEN ExcludeLists
                              ELSE {<<DbAB>>})
    /\ server_dbs \in (IF DATABASE_MODE \in {"all", "all_except"} THEN ServerLists
                       ELSE {<<DbA, DbAB>>})
    /\ \E pa \in RowLists(ObjectUniverse, MaxRows), tb \in RowLists(TableUniverse, MaxRows) :
          catalog = [db \in Namespaces |->
                        IF db = DbA THEN [procs |-> pa, tables |-> <<>>]
                        ELSE [procs |-> <<>>, tables |-> tb]]
    /\ \E tracked \in SUBSET PathUniverse :
          repo = [p \in tracked \cup {ReadmePath} |-> OldContent]
    /\ databases = <<>> /\ existing_files = {} /\ all_actions = <<>>
    /\ db_stats = <<>> /\ idx = 0 /\ database_name = <<>> /\ db_conn = 0
    /\ open_conns = {} /\ proc_rows = <<>> /\ table_rows = <<>> /\ actions = <<>>
    /\ log = <<>> /\ commit_calls = 0 /\ requests = <<>>
    /\ actions2 = <<>> /\ NormIdle

static == <<DATABASE_MODE, DATABASES, EXCLUDE_DATABASES, server_dbs, catalog,
            actions2, object_type, definition, normalized, renormalized>>

loopVars == <<database_name, db_conn, open_conns, proc_rows, table_rows,
              actions, log, all_actions, db_stats, idx>>

\* main() starts
Start ==
    /\ pc = "Idle"
    /\ pc' = "ResolvingNamespaces"
    /\ UNCHANGED <<static, repo, databases, existing_files, loopVars,
                   commit_calls, requests>>

\* get_databases
get_databases ==
    CASE DATABASE_MODE = "specific" -> DATABASES
      [] DATABASE_MODE = "all" -> server_dbs
      [] DATABASE_MODE = "all_except" ->
            SelectSeq(server_dbs, LAMBDA db : db \notin Range(EXCLUDE_DATABASES))

\* main() leaves through its except clause: the exception is logged and raised
Fail ==
    /\ pc' = "Failed"
    /\ UNCHANGED <<static, repo, databases, existing_files, loopVars,
                   commit_calls, requests>>

\* connect_to_server raises pyodbc.Error
ServerConnectFails ==
    /\ pc = "ResolvingNamespaces"
    /\ Fail

\* get_databases: the query on sys.databases raises
DatabaseQueryFails ==
    /\ pc = "ResolvingNamespaces"
    /\ DATABASE_MODE # "specific"
    /\ Fail

\* get_databases raises ValueError
InvalidMode ==
    /\ pc = "ResolvingNamespaces"
    /\ DATABASE_MODE \notin {"specific", "all", "all_except"}
    /\ Fail

\* connect_to_server, get_databases, conn.close()
Resolve ==
    /\ pc = "ResolvingNamespaces"
    /\ DATABASE_MODE \in {"specific", "all", "all_except"}
    /\ databases' = get_databases
    /\ pc' = "ConnectingGitlab"
    /\ UNCHANGED <<static, repo, existing_files, loopVars, commit_calls, requests>>

\* connect_gitlab returns
ConnectGitlab ==
    /\ pc = "ConnectingGitlab"
    /\ pc' = "ReadingExistingFiles"
    /\ UNCHANGED <<static, repo, databases, existing_files, loopVars,
                   commit_calls, requests>>

\* connect_gitlab raises GitlabAuthenticationError or GitlabGetError
ConnectGitlabFails ==
    /\ pc = "ConnectingGitlab"
    /\ Fail

\* get_existing_files returns the tracked files; all_actions = [], db_stats = {}
ReadExistingFiles ==
    /\ pc = "ReadingExistingFiles"
    /\ existing_files' = get_existing_files(repo)
    /\ all_actions' = <<>> /\ db_stats' = <<>> /\ idx' = 1
    /\ pc' = "PerNamespaceProcessing"
    /\ UNCHANGED <<static, repo, databases, database_name, db_conn, open_conns,
                   proc_rows, table_rows, actions, log, commit_calls, requests>>

\* get_existing_files catches GitlabGetError and returns the empty set
ReadExistingFilesUnavailable ==
    /\ pc = "ReadingExistingFiles"
    /\ existing_files' = {}
    /\ all_actions' = <<>> /\ db_stats' = <<>> /\ idx' = 1
    /\ pc' = "PerNamespaceProcessing"
    /\ UNCHANGED <<static, repo, databases, database_name, db_conn, open_conns,
                   proc_rows, table_rows, actions, log, commit_calls, requests>>

\* repository_tree raises something else than GitlabGetError
ReadExistingFilesFails ==
    /\ pc = "ReadingExistingFiles"
    /\ Fail

\* db_conn and db_cursor are bound to a new connection: the connection they
\* held has no reference left, and if it was never closed its finalizer may
\* close it now
Rebound(new, finalized) ==
    (IF finalized THEN open_conns \ {db_conn} ELSE open_conns) \cup {new}

InLoop ==
    /\ pc = "PerNamespaceProcessing"
    /\ idx <= Len(databases)

LogLine(status, objects, deletions) ==
    [database |-> databases[idx], status |-> status,
     objects |-> objects, deletions |-> deletions]

\* connect_to_database raises and the exception leaves the loop
ConnectFailsAborts ==
    /\ InLoop
    /\ database_name' = databases[idx]
    /\ log' = Append(log, LogLine("Failed", 0, 0))
    /\ pc' = "Failed"
    /\ UNCHANGED <<static, repo, databases, existing_files, db_conn, idx,
                   open_conns, proc_rows, table_rows, actions, all_actions,
                   db_stats, commit_calls, requests>>

\* one pass of the loop body: connect_to_database raises
ConnectFails ==
    /\ InLoop
    /\ database_name' = databases[idx]
    /\ log' = Append(log, LogLine("Failed", 0, 0))
    /\ idx' = idx + 1
    /\ UNCHANGED <<pc, static, repo, databases, existing_files, db_conn,
                   open_conns, proc_rows, table_rows, actions, all_actions,
                   db_stats, commit_calls, requests>>

\* fetch_database_objects raises and the exception leaves the loop
FetchObjectsFailsAborts ==
    /\ InLoop
    /\ database_name' = databases[idx]
    /\ \E finalized \in BOOLEAN : open_conns' = Rebound(idx, finalized)
    /\ db_conn' = idx
    /\ pc' = "Failed"
    /\ UNCHANGED <<static, repo, databases, existing_files, proc_rows, idx, log,
                   table_rows, actions, all_actions, db_stats, commit_calls,
                   requests>>

\* one pass of the loop body: fetch_database_objects raises
FetchObjectsFails ==
    /\ InLoop
    /\ database_name' = databases[idx]
    /\ \E finalized \in BOOLEAN : open_conns' = Rebound(idx, finalized)
    /\ db_conn' = idx
    /\ log' = Append(log, LogLine("Failed", 0, 0))
    /\ idx' = idx + 1
    /\ UNCHANGED <<pc, static, repo, databases, existing_files, proc_rows,
                   table_rows, actions, all_actions, db_stats, commit_calls,
                   requests>>

\* one pass of the loop body: fetch_table_ddl raises
FetchTablesFails ==
    /\ InLoop
    /\ database_name' = databases[idx]
    /\ \E finalized \in BOOLEAN : open_conns' = Rebound(idx, finalized)
    /\ db_conn' = idx
    /\ proc_rows' = fetch_database_objects(catalog[databases[idx]].procs)
    /\ log' = Append(log, LogLine("Failed", 0, 0))
    /\ idx' = idx + 1
    /\ UNCHANGED <<pc, static, repo, databases, existing_files, table_rows,
                   actions, all_actions, db_stats, commit_calls, requests>>

\* one pass of the loop body without exception
ProcessDatabase ==
    /\ InLoop
    /\ LET db == databases[idx]
           procs == fetch_database_objects(catalog[db].procs)
           tables == catalog[db].tables
       IN \E order \in Orderings(DeletedFiles(db, procs, tables, existing_files)) :
            LET result == prepare_commit_actions(db, procs, tables, existing_files, order)
            IN /\ database_name' = db
               /\ proc_rows' = procs
               /\ table_rows' = tables
               /\ actions' = result.actions
               /\ all_actions' = all_actions \o result.actions
               /\ db_stats' = [n \in DOMAIN db_stats \cup {db} |->
                                  IF n = db THEN [objects |-> result.total_objects,
                                                  deletions |-> result.deleted_count]
                                  ELSE db_stats[n]]
               /\ log' = Append(log, LogLine("Completed", result.total_objects,
                                             result.deleted_count))
    /\ \E finalized \in BOOLEAN : open_conns' = Rebound(idx, finalized) \ {idx}
    /\ db_conn' = idx
    /\ idx' = idx + 1
    /\ UNCHANGED <<pc, static, repo, databases, existing_files, commit_calls,
                   requests>>

\* the loop is left after its first pass
LoopExitAfterFirstPass ==
    /\ pc = "PerNamespaceProcessing"
    /\ idx > 1 \/ idx > Len(databases)
    /\ pc' = "Committing"
    /\ UNCHANGED <<static, repo, databases, existing_files, loopVars,
                   commit_calls, requests>>

\* the for loop is exhausted
LoopExit ==
    /\ pc = "PerNamespaceProcessing"
    /\ idx > Len(databases)
    /\ pc' = "Committing"
    /\ UNCHANGED <<static, repo, databases, existing_files, loopVars,
                   commit_calls, requests>>

\* commit_to_gitlab with an empty list: "No changes to commit"
CommitNothing ==
    /\ pc = "Committing"
    /\ all_actions = <<>>
    /\ commit_calls' = commit_calls + 1
    /\ pc' = "Done"
    /\ UNCHANGED <<static, repo, databases, existing_files, loopVars, requests>>

\* commit_to_gitlab: project.commits.create returns a commit
CommitCreated ==
    /\ pc = "Committing"
    /\ all_actions # <<>>
    /\ CommitAccepted(repo, all_actions)
    /\ commit_calls' = commit_calls + 1
    /\ requests' = Append(requests, all_actions)
    /\ repo' = ApplyActions(repo, all_actions)
    /\ pc' = "Done"
    /\ UNCHANGED <<static, databases, existing_files, loopVars>>

\* commit_to_gitlab: project.commits.create raises GitlabCreateError
CommitFails ==
    /\ pc = "Committing"
    /\ all_actions # <<>>
    /\ commit_calls' = commit_calls + 1
    /\ requests' = Append(requests, all_actions)
    /\ pc' = "Failed"
    /\ UNCHANGED <<static, repo, databases, existing_files, loopVars>>

\* sum(s[field] for s in db_stats.values())
RECURSIVE SumStats(_, _)
SumStats(names, field) ==
    IF names = {} THEN 0
    ELSE LET n == CHOOSE m \in names : TRUE
         IN db_stats[n][field] + SumStats(names \ {n}, field)

\* total_objects and total_deletions of the final summary
total_objects == SumStats(DOMAIN db_stats, "objects")
total_deletions == SumStats(DOMAIN db_stats, "deletions")

Next ==
    \/ Start
    \/ ServerConnectFails
    \/ DatabaseQueryFails
    \/ InvalidMode
    \/ Resolve
    \/ ConnectGitlab
    \/ ConnectGitlabFails
    \/ ReadExistingFiles
    \/ ReadExistingFilesUnavailable
    \/ ReadExistingFilesFails
    \/ ConnectFails
    \/ FetchObjectsFails
    \/ FetchTablesFails
    \/ ProcessDatabase
    \/ LoopExit
    \/ CommitNothing
    \/ CommitCreated
    \/ CommitFails

Spec == Init /\ [][Next]_vars

(***************************************************************************)
(* SpecNorm: the rewrite applied to a definition, then to its own result   *)
(***************************************************************************)
ObjectTypes == {<<"P", " ">>, <<"F", "N">>, <<"I", "F">>, <<"T", "F">>,
                <<"V", " ">>, <<"T", "R">>}

\* clauses a stored definition is made of
Clauses ==
    {<<"CREATE", " ">> \o kw : kw \in {KwProcedure, KwProc, KwFunction, KwView, KwTrigger}}
      \cup {<<"create", "\n", " ", "proc">>, <<"create", " ", "proc", "EDURE">>,
            CreateOrAlter(KwProc), CreateOrAlter(KwProcedure), CreateOrAlter(KwView),
            <<"x", "CREATE", " ", "PROC">>, <<"CREATE", " ", "PROC", "x">>,
            <<"CREATE", "PROC">>, <<"x">>}

\* definitions of at most n clauses, one per line
RECURSIVE Texts(_)
Texts(n) ==
    IF n = 0 THEN {<<>>}
    ELSE Texts(n - 1) \cup Clauses
           \cup {t \o <<"\n">> \o c : t \in Texts(n - 1) \ {<<>>}, c \in Clauses}

RunDiffIdle ==
    /\ database_name = <<>> /\ proc_rows = <<>> /\ table_rows = <<>>
    /\ existing_files = {} /\ actions = <<>> /\ actions2 = <<>>

InitNorm ==
    /\ pc = "NormReady"
    /\ object_type \in ObjectTypes
    /\ definition \in Texts(MaxClauses) \cup {None}
    /\ normalized = None /\ renormalized = None
    /\ RunIdle /\ RunDiffIdle

NormFirst ==
    /\ pc = "NormReady"
    /\ normalized' = Normalize(object_type, definition)
    /\ pc' = "NormOnce"
    /\ UNCHANGED <<object_type, definition, renormalized>>
    /\ UNCHANGED runVars /\ UNCHANGED diffVars

NormSecond ==
    /\ pc = "NormOnce"
    /\ renormalized' = Normalize(object_type, normalized)
    /\ pc' = "NormTwice"
    /\ UNCHANGED <<object_type, definition, normalized>>
    /\ UNCHANGED runVars /\ UNCHANGED diffVars

NextNorm == NormFirst \/ NormSecond

SpecNorm == InitNorm /\ [][NextNorm]_vars

\* C4: normalizing a normalized definition changes nothing
NormalizeIdempotent == pc = "NormTwice" => renormalized = normalized

(***************************************************************************)
(* Properties                                                              *)
(***************************************************************************)
Last(s) == s[Len(s)]

Paths(acts, kinds) ==
    {acts[i].file_path : i \in {j \in 1..Len(acts) : acts[j].action \in kinds}}

Completed(db) == \E i \in 1..Len(log) : log[i].database = db /\ log[i].status = "Completed"

\* the paths computed for the rows in proc_rows and table_rows
ComputedPaths(db) ==
    {db \o <<"/">> \o TYPE_FOLDERS(Strip(proc_rows[i].object_type)) \o <<"/">>
        \o proc_rows[i].schema_name \o <<".">> \o proc_rows[i].object_name \o DotSql :
            i \in 1..Len(proc_rows)}
    \cup {db \o <<"/", "t", "a", "b", "l", "e", "s", "/">>
        \o table_rows[i].schema_name \o <<".">> \o table_rows[i].table_name \o DotSql :
            i \in 1..Len(table_rows)}

\* C1: after a pass of the loop that completed for database N, the Delete
\* actions it returned are exactly the existing files that start with "N/"
\* and are not computed for N's rows; and in the merged list of a run over
\* several databases every Delete targets an existing file under the prefix
\* of a database that completed, never a file outside those prefixes.
DeletesScopedToNamespace ==
    /\ (log # <<>> /\ Last(log).status = "Completed") =>
          Paths(actions, {"delete"}) =
             {f \in existing_files : StartsWith(f, database_name \o <<"/">>)}
                \ ComputedPaths(database_name)
    /\ \A f \in Paths(all_actions, {"delete"}) :
          /\ f \in existing_files
          /\ \E db \in Namespaces : Completed(db) /\ StartsWith(f, db \o <<"/">>)
          /\ \A db \in Namespaces : StartsWith(f, db \o <<"/">>) => Completed(db)

\* C1 witness: two databases completed in one run, a file was deleted, and a
\* tracked file of the other database, whose name starts alike, was kept
DeleteBesideOtherNamespace ==
    /\ Len(log) = 2 /\ log[1].status = "Completed" /\ log[2].status = "Completed"
    /\ log[1].database = DbAB /\ log[2].database = DbA
    /\ Paths(actions, {"delete"}) # {}
    /\ \E f \in existing_files :
          StartsWith(f, DbAB \o <<"/">>) /\ f \notin Paths(all_actions, {"delete"})

\* C2: every fetched object and table gets one action on its computed path,
\* Update if that path is an existing file and Create otherwise, and nothing
\* else is created or updated; when the existing files are exactly the
\* computed paths, every returned action is an Update.
UpdateIfExistsElseCreate ==
    pc = "DiffOnce" =>
       /\ Len(actions) >= Len(proc_rows) + Len(table_rows)
       /\ \A i \in 1..Len(actions) :
             actions[i].action \in {"create", "update"} <=> i <= Len(proc_rows) + Len(table_rows)
       /\ \A i \in 1..Len(proc_rows) :
             /\ actions[i].file_path = ObjectPath(database_name, proc_rows[i])
             /\ actions[i].action =
                  (IF actions[i].file_path \in existing_files THEN "update" ELSE "create")
       /\ \A i \in 1..Len(table_rows) :
             LET a == actions[Len(proc_rows) + i]
             IN /\ a.file_path = TablePath(database_name, table_rows[i])
                /\ a.action = (IF a.file_path \in existing_files THEN "update" ELSE "create")
       /\ existing_files = ComputedPaths(database_name) =>
             \A i \in 1..Len(actions) : actions[i].action = "update"

\* C2 witness: the existing files are exactly the computed paths of a table
\* and an object, and actions were returned
RoundTripCase ==
    /\ pc = "DiffOnce"
    /\ proc_rows # <<>> /\ table_rows # <<>>
    /\ existing_files = ComputedPaths(database_name)
    /\ actions # <<>>

\* C9: two calls of prepare_commit_actions on the same database, rows and
\* existing files return the same action list
DiffDeterministic == pc = "DiffTwice" => actions2 = actions

\* the tracked .sql files of a tree
Tracked(tree) == {p \in DOMAIN tree : EndsWith(p, DotSql)}

\* the rows a completed pass fetched for db
FetchedObjects(db) == fetch_database_objects(catalog[db].procs)
FetchedTables(db) == catalog[db].tables

\* the files under "db/" in the tree after are exactly the paths computed for
\* db's fetched rows, each holding its row's definition or DDL
MirrorsCatalog(db, after) ==
    /\ {p \in Tracked(after) : StartsWith(p, db \o <<"/">>)} =
          {ObjectPath(db, FetchedObjects(db)[i]) : i \in 1..Len(FetchedObjects(db))}
             \cup {TablePath(db, FetchedTables(db)[i]) : i \in 1..Len(FetchedTables(db))}
    /\ \A i \in 1..Len(FetchedObjects(db)) :
          LET p == ObjectPath(db, FetchedObjects(db)[i])
          IN p \in DOMAIN after /\ after[p] = OrEmpty(FetchedObjects(db)[i].definition)
    /\ \A i \in 1..Len(FetchedTables(db)) :
          LET p == TablePath(db, FetchedTables(db)[i])
          IN p \in DOMAIN after /\ after[p] = OrEmpty(FetchedTables(db)[i].ddl)

\* the files under "db/" are the same, with the same content, before and after
Untouched(db, before, after) ==
    \A p \in DOMAIN before \cup DOMAIN after :
       StartsWith(p, db \o <<"/">>) =>
          p \in DOMAIN before /\ p \in DOMAIN after /\ before[p] = after[p]

\* the commit of a run is applied to the tree the run read its existing
\* files from
CommitApplied ==
    /\ pc = "Committing" /\ pc' = "Done"
    /\ requests' # requests
    /\ existing_files = Tracked(repo)

\* C3: when the existing files read by the run are the tracked files and
\* the commit is applied, then for every database that completed the files
\* under its prefix mirror its fetched rows, and the files of every other
\* database are untouched.
Convergence ==
    [][CommitApplied =>
          \A db \in Namespaces :
             IF Completed(db) THEN MirrorsCatalog(db, repo')
             ELSE Untouched(db, repo, repo')]_vars

\* the rows of db render to pairwise different paths
DistinctPaths(db) ==
    \A i, j \in 1..Len(FetchedObjects(db)) :
       ObjectPath(db, FetchedObjects(db)[i]) = ObjectPath(db, FetchedObjects(db)[j]) => i = j

\* when no two rows of a database render to one path, its files mirror its
\* fetched rows after the commit
ConvergenceOfDistinctPaths ==
    [][CommitApplied =>
          \A db \in Namespaces :
             IF Completed(db) THEN (DistinctPaths(db) => MirrorsCatalog(db, repo'))
             ELSE Untouched(db, repo, repo')]_vars

\* every database of the resolved list has had its pass, in list order
AllAttempted ==
    /\ Len(log) = Len(databases)
    /\ \A i \in 1..Len(log) : log[i].database = databases[i]

\* the number of actions of the passes that completed
RECURSIVE ActionsLogged(_)
ActionsLogged(lines) ==
    IF lines = <<>> THEN 0
    ELSE (IF Head(lines).status = "Completed"
          THEN Head(lines).objects + Head(lines).deletions ELSE 0)
         + ActionsLogged(Tail(lines))

PassFailed == Len(log') = Len(log) + 1 /\ Last(log').status = "Failed"

PassCompleted == Len(log') = Len(log) + 1 /\ Last(log').status = "Completed"

\* C5: a pass that fails for one database leaves the merged actions and the
\* statistics as they were and the run goes on with the next database; at
\* the commit step every database has been attempted, the merged list holds
\* the actions of every pass that completed, and a database that did not
\* complete has no action in the list and no entry in the report.
FailureIsolated ==
    /\ [][PassFailed => /\ all_actions' = all_actions
                        /\ db_stats' = db_stats
                        /\ pc' = "PerNamespaceProcessing"
                        /\ idx' = idx + 1]_vars
    /\ [](\A db \in Namespaces :
             ~Completed(db) =>
                /\ db \notin DOMAIN db_stats
                /\ \A i \in 1..Len(all_actions) :
                      ~StartsWith(all_actions[i].file_path, db \o <<"/">>))
    /\ [](pc \in {"Committing", "Done"} =>
             AllAttempted /\ Len(all_actions) = ActionsLogged(log))

\* C5 witness: the first database failed, the second completed, and the run
\* is at the commit step with the second database's actions
CommitAfterFailedNamespace ==
    /\ pc = "Committing"
    /\ Len(log) = 2
    /\ log[1].status = "Failed" /\ log[2].status = "Completed"
    /\ log[1].database # log[2].database
    /\ all_actions # <<>>

\* C6 as claimed: every run ends with commit_to_gitlab called exactly once
CommitInvokedOnceInEveryRun == pc \in {"Done", "Failed"} => commit_calls = 1

\* C6 amended: commit_to_gitlab is called at most once in a run, never before
\* the commit step, and exactly once in a run that completes; it is called
\* only after every database of the resolved list was attempted; a request
\* is submitted at most once, only by that call, and carries the whole
\* merged list, which is the concatenation of the actions of the passes that
\* completed; with an empty merged list nothing is submitted.
CommitOnceWithAllActions ==
    /\ [](/\ commit_calls <= 1 /\ Len(requests) <= 1
          /\ pc \in {"Idle", "ResolvingNamespaces", "ConnectingGitlab",
                     "ReadingExistingFiles", "PerNamespaceProcessing",
                     "Committing"} => commit_calls = 0
          /\ pc = "Done" => commit_calls = 1
          /\ commit_calls = 1 => AllAttempted
          /\ requests # <<>> =>
                /\ commit_calls = 1
                /\ requests[1] = all_actions
                /\ Len(requests[1]) = ActionsLogged(log)
          /\ (commit_calls = 1 /\ all_actions # <<>>) => Len(requests) = 1)
    /\ [][PassCompleted => all_actions' = all_actions \o actions']_vars

\* C6 witness: a run over two databases completed with one request submitted
OneRequestForTwoNamespaces ==
    /\ pc = "Done"
    /\ Len(requests) = 1
    /\ Len(log) = 2
    /\ log[1].status = "Completed" /\ log[2].status = "Completed"
    /\ log[1].database # log[2].database
    /\ log[1].objects > 0 /\ log[2].objects > 0

\* C7: with an empty resolved list the run never gets to the loop over the
\* databases, to the commit step or to its successful end
EmptyResolutionAborts ==
    pc \in {"PerNamespaceProcessing", "Committing", "Done"} => databases # <<>>

ConnectionsScoped ==
    /\ Cardinality(open_conns) <= 1
    /\ pc \in {"Committing", "Done", "Failed"} => open_conns = {}


\* C11: in the merged list handed to the commit no two actions target the
\* same file path, and the reported totals are the numbers of Create/Update
\* and of Delete actions in that list
OneActionPerPathAndTotalsMatch ==
    pc \in {"Committing", "Done"} =>
       /\ \A i, j \in 1..Len(all_actions) :
             all_actions[i].file_path = all_actions[j].file_path => i = j
       /\ total_objects =
             Cardinality({i \in 1..Len(all_actions) :
                             all_actions[i].action \in {"create", "update"}})
       /\ total_deletions =
             Cardinality({i \in 1..Len(all_actions) :
                             all_actions[i].action = "delete"})

====
